---- MODULE Spec2Model ----
(***************************************************************************)
(* Model of the video generation route handler (POST /api/generate-video)  *)
(* of src/unnamed/part_000: request validation, the mock fallback, the     *)
(* create-prediction call, the poll loop with its timeout guard and the    *)
(* normalisation of the provider's answer into a GenerationResult.         *)
(*                                                                         *)
(* JavaScript values are records [t, s, a]: t is the typeof-like tag, s    *)
(* the text of a string or number, a the elements of an array.  Durations  *)
(* are counted in sixteenths of a second so that the fractional durations  *)
(* z.number() accepts and Math.floor rounds are represented.  Times are    *)
(* milliseconds.                                                           *)
(***************************************************************************)
EXTENDS Integers, Sequences, FiniteSets, TLC

\* ------------------------------------------------------------------ bounds
\* Longest provider output array considered.
MaxOutputLen == 2
\* A provider call takes k * 2500 ms for some k in 0..MaxLatency.
MaxLatency == 1
\* Form submissions followed in the page model.
MaxSubmissions == 2

\* --------------------------------------------------------- JavaScript values
Undefined == [t |-> "undefined", s |-> "", a |-> <<>>]
Null == [t |-> "null", s |-> "", a |-> <<>>]
Obj == [t |-> "object", s |-> "", a |-> <<>>]
Str(x) == [t |-> "string", s |-> x, a |-> <<>>]
Num(x) == [t |-> "number", s |-> x, a |-> <<>>]
Arr(xs) == [t |-> "array", s |-> "", a |-> xs]

\* typeof v === "string"
IsString(v) == v.t = "string"

\* Array.isArray(v)
IsArray(v) == v.t = "array"

\* Variant: only null and undefined are falsy (a `== null` test).
TruthyNotNullish(v) == v.t \notin {"undefined", "null"}

\* JavaScript truthiness, as tested by `!token` and `!videoUrl`.
Truthy(v) ==
    CASE v.t = "string" -> v.s # ""
      [] v.t = "number" -> v.s # "0"
      [] v.t \in {"undefined", "null"} -> FALSE
      [] OTHER -> TRUE

\* The nullish coalescing operator: l ?? r.
Coalesce(l, r) == IF l.t \in {"undefined", "null"} THEN r ELSE l

\* ------------------------------------------------------------ program text
fallbackVideoUrl == "https://sample-videos.com/video321/mp4/720/big_buck_bunny_720p_1mb.mp4"
MockMessage == "Set the REPLICATE_API_TOKEN environment variable to generate bespoke footage. Showing a sample cinematic reel instead."
CreateFailedMessage == "Failed to create prediction with Replicate. Verify API token and prompt validity."
TimeoutMessage == "Video generation exceeded the allowable time window."
NotFinishedMessage == "The video model did not finish successfully. Adjust your prompt or try again."
UnexpectedPayloadMessage == "The diffusion model returned an unexpected output payload."
SuccessMessage == "Success! Video diffusion output is ready for review."

timeoutMs == 55000
WaitMs == 3500
MinPromptLen == 8
MinStyleLen == 3
\* duration bounds 4 and 24 seconds, and the frame cap
MinDuration == 4
MaxDuration == 24
FramesPerSecond == 8
MaxFrames == 160
\* durations are held in sixteenths of a second: half a frame
DurationScale == 2 * FramesPerSecond

AspectRatioEnum == {"16:9", "9:16", "1:1"}

\* The style values the form offers (the UI's select options).
styles == {"cinematic", "anime", "futuristic", "documentary", "surreal", "minimalist"}

\* ------------------------------------------------------------------ inputs
\* A request body as request.json() yields it: "unparsable" when the text is
\* not JSON, "null" for a JSON value that is no object, else the four fields.
Body(t, p, st, ar, d) == [t |-> t, prompt |-> p, style |-> st, aspectRatio |-> ar, duration |-> d]

Prompts == {Undefined, Str("sunrise"), Str("sunrises")}
StyleInputs == {Num("7"), Str("ab"), Str("abc"), Str("anime")}
AspectInputs == {Str("16:9"), Str("1:1"), Str("4:3")}
\* 3.9375 s, 4 s, 19.9375 s, 24 s, 24.0625 s
DurationInputs == {63, 64, 319, 384, 385}

Bodies ==
    {Body("unparsable", Undefined, Undefined, Undefined, 0), Body("null", Undefined, Undefined, Undefined, 0)}
    \cup {Body("object", p, st, ar, d) : p \in Prompts, st \in StyleInputs, ar \in AspectInputs, d \in DurationInputs}

\* process.env.REPLICATE_API_TOKEN: unset, set to the empty string, or set.
Tokens == {Undefined, Str(""), Str("r8_token")}

\* ------------------------------------------------------- request validator
\* Variant: z.string() without the minimum length.
ZStringAny(v, n) == IsString(v)

\* z.string().min(n)
ZStringMin(v, n) == IsString(v) /\ Len(v.s) >= n

\* z.enum(S)
ZEnum(v, S) == IsString(v) /\ v.s \in S

\* z.number().min(lo).max(hi), on a duration in sixteenths of a second
ZNumberRange(d, lo, hi) == d >= lo * DurationScale /\ d <= hi * DurationScale

\* Variant: aspectRatio accepted as any string.
requestSchemaAnyAspect(json) ==
    /\ json.t = "object"
    /\ ZStringMin(json.prompt, MinPromptLen)
    /\ ZStringMin(json.style, MinStyleLen)
    /\ IsString(json.aspectRatio)
    /\ ZNumberRange(json.duration, MinDuration, MaxDuration)

\* requestSchema.parse(json) returns (TRUE) or throws a ZodError (FALSE).
requestSchema(json) ==
    /\ json.t = "object"
    /\ ZStringMin(json.prompt, MinPromptLen)
    /\ ZStringMin(json.style, MinStyleLen)
    /\ ZEnum(json.aspectRatio, AspectRatioEnum)
    /\ ZNumberRange(json.duration, MinDuration, MaxDuration)

\* error.message of what `await request.json()` / `requestSchema.parse` throw
SyntaxErrorMessage == "Unexpected token in JSON"
ZodErrorMessage == "ZodError: invalid request"
FetchErrorMessage == "fetch failed"
TypeErrorMessage == "Cannot read properties of null"

\* Variant: Math.floor(duration * 8) without the cap.
numFramesUncapped(d) == (d * FramesPerSecond) \div DurationScale

\* Math.min(Math.floor(duration * 8), 160)
numFramesOf(d) ==
    LET frames == (d * FramesPerSecond) \div DurationScale
    IN  IF frames < MaxFrames THEN frames ELSE MaxFrames

\* ---------------------------------------------------------------- provider
\* The JSON text of a provider response, parsed: "unparsable" when .json()
\* rejects, "null" for JSON null, else an object with these members.
Json(t, id, st, out, err, det) ==
    [t |-> t, id |-> id, status |-> st, output |-> out, error |-> err, detail |-> det]

UnparsableJson == Json("unparsable", Undefined, Undefined, Undefined, Undefined, Undefined)
NullJson == Json("null", Undefined, Undefined, Undefined, Undefined, Undefined)

VideoUrl == "https://x/video.mp4"
OutputItems == {Num("42"), Str(""), Str("not-a-url"), Str(VideoUrl)}

RECURSIVE SeqsUpTo(_, _)
SeqsUpTo(S, n) ==
    IF n = 0 THEN {<<>>}
    ELSE LET shorter == SeqsUpTo(S, n - 1)
         IN  shorter \cup {Append(q, x) : q \in {r \in shorter : Len(r) = n - 1}, x \in S}

Outputs ==
    {Undefined, Null, Obj, Num("42"), Str(""), Str("not-a-url"), Str(VideoUrl)}
    \cup {Arr(xs) : xs \in SeqsUpTo(OutputItems, MaxOutputLen)}

\* The invocation of the handler whose continuation is running: 1 or 2.
VARIABLE self

\* The id the provider gives the job of invocation i, and of the running one.
JobIdOf(i) == Str(<<"p1", "p2">>[i])
JobId == JobIdOf(self)
ProviderError == Str("CUDA out of memory")

InProgressJobs ==
    {Json("object", JobId, Str(st), Null, Null, Undefined) : st \in {"starting", "processing"}}
    \cup {Json("object", JobId, Str("processing"), Null, ProviderError, Undefined)}

SucceededJobs == {Json("object", JobId, Str("succeeded"), out, Null, Undefined) : out \in Outputs}

UnfinishedJobs ==
    {Json("object", JobId, Str(st), Null, err, Undefined) :
        st \in {"failed", "canceled", "queued"}, err \in {Null, ProviderError}}

Jobs == InProgressJobs \cup SucceededJobs \cup UnfinishedJobs

\* Bodies of a non-success create response.
ErrorDetail == Str("Invalid token.")
ErrorBodies ==
    {UnparsableJson, NullJson}
    \cup {Json("object", Undefined, Undefined, Undefined, Undefined, det) : det \in {Undefined, Null, ErrorDetail}}

Latencies == {k * 2500 : k \in 0..MaxLatency}

\* ------------------------------------------------------------------- state
VARIABLES
    body,        \* the request's JSON body
    token,       \* process.env.REPLICATE_API_TOKEN
    pc,          \* the handler's position
    now,         \* Date.now(), relative to the request's arrival
    start,       \* const start = Date.now()
    elapsed,     \* the last value of Date.now() - start computed by the guard
    prediction,  \* let prediction
    numFrames,   \* num_frames sent with the create call (0: none sent)
    createResponse,  \* const createResponse: what the create call came back with
    latestResponse,  \* const latestResponse: what the last status call came back with
    errorPayload,    \* const errorPayload: the parsed body of a non-success create response
    creates,     \* create-job calls made
    polls,       \* get-job-status calls made
    result,      \* the JSON body and HTTP status answered
    requests,    \* the requests sent to the provider
    \* the provider
    job,         \* the status of the job on the provider's side ("none": no job)
    \* a second invocation of the handler
    parked,      \* the locals and the job of the invocation that is suspended
    \* the page (HomePage of src/unnamed/part_001)
    form,            \* the prompt, style, aspectRatio and duration state
    steps,           \* the status of each pipeline step
    logs,            \* the agent log, newest first
    isSubmitting,
    error,           \* the error state: null or a message
    uiResult,        \* the result state: null or the handler's answer
    uiPc,            \* handleSubmit's position
    requestBody,     \* the body of the last request sent to /api/generate-video
    submissions,     \* handleSubmit invocations
    handlerCalls     \* fetch("/api/generate-video") calls

handlerVars == <<body, token, pc, now, start, elapsed, prediction, numFrames, createResponse, latestResponse, errorPayload, creates, polls, result, requests>>

uiVars == <<form, steps, logs, isSubmitting, error, uiResult, uiPc, requestBody, submissions, handlerCalls>>

peerVars == <<self, parked>>

vars == <<handlerVars, job, peerVars, uiVars>>

\* NextResponse.json({status, predictionId, videoUrl, message}, {status: 200});
\* a member that is Undefined is absent from the serialised body.
Response(st, id, url, msg) ==
    [http |-> 200, status |-> st, predictionId |-> id, videoUrl |-> url, message |-> msg]

NoResponse == [http |-> 0, status |-> "", predictionId |-> Undefined, videoUrl |-> Undefined, message |-> Undefined]

\* Variant: the catch block answers with a server error.
CatchResponse500(msg) ==
    [http |-> 500, status |-> "failed", predictionId |-> Undefined, videoUrl |-> Undefined, message |-> Str(msg)]

\* The catch block: error.message of an Error.
CatchResponse(msg) == Response("failed", Undefined, Undefined, Str(msg))

\* What a fetch came back with: nothing yet ("none"), a rejection ("rejected"),
\* or a Response ("received") with its ok flag.
Fetched(st, ok) == [st |-> st, ok |-> ok]

NotFetched == Fetched("none", FALSE)
Rejected == Fetched("rejected", FALSE)

\* ------------------------------------------------------------------- page
\* The form state; the duration is in sixteenths of a second like a request's.
Form(p, st, ar, d) == [prompt |-> p, style |-> st, aspectRatio |-> ar, duration |-> d]

\* useState defaults: the sample prompt, styles[0], aspectRatios[0], 12 seconds.
DefaultPrompt == "A bio-luminescent city floating above an ocean of clouds with aurora sky"
DefaultForm == Form(DefaultPrompt, "cinematic", "16:9", 12 * DurationScale)

\* What the form's controls let the user set: a style and an aspect ratio of
\* the select options, a duration within the input's min and max.
Forms ==
    {Form(DefaultPrompt, st, ar, d * DurationScale) :
        st \in styles, ar \in AspectRatioEnum, d \in {MinDuration, MaxDuration}}

baseSteps == {"analysis", "storycraft", "rendering"}

\* baseSteps.map((step) => ({ ...step, status: "pending" }))
PendingSteps == [id \in baseSteps |-> "pending"]

\* updateStep(stepId, status), applied to the steps st
updateStep(st, stepId, status) == [st EXCEPT ![stepId] = status]

Log(label, text, tone) == [label |-> label, body |-> text, tone |-> tone]

\* pushLog(log), applied to the logs ls: the new entry goes first
pushLog(ls, log) == <<log>> \o ls

\* A VideoResponse; NoData stands for the null result state.
Data(st, url, msg) == [status |-> st, videoUrl |-> url, message |-> msg]

NoData == Data("", Undefined, Undefined)

\* The answers the route handler gives.
Datas ==
    {Data("failed", Undefined, msg) : msg \in {Undefined, Str(TimeoutMessage)}}
    \cup {Data("succeeded", Str(VideoUrl), Str(SuccessMessage)),
          Data("mock", Str(fallbackVideoUrl), Str(MockMessage))}

NoBody == Body("none", Undefined, Undefined, Undefined, 0)

\* The page before any submission.
PageStart ==
    /\ steps = PendingSteps
    /\ logs = <<>>
    /\ isSubmitting = FALSE
    /\ error = Null
    /\ uiResult = NoData
    /\ uiPc = "idle"
    /\ requestBody = NoBody
    /\ submissions = 0
    /\ handlerCalls = 0

\* The handler as a request reaches it.
HandlerStart ==
    /\ pc = "validate"
    /\ now = 0
    /\ start = 0
    /\ elapsed = 0
    /\ prediction = NullJson
    /\ numFrames = 0
    /\ createResponse = NotFetched
    /\ latestResponse = NotFetched
    /\ errorPayload = NullJson
    /\ creates = 0
    /\ polls = 0
    /\ result = NoResponse
    /\ requests = {}
    /\ job = "none"

\* What an invocation keeps across its awaits: the request, the const and let
\* bindings of POST, and with them the job it created.
Locals ==
    [body |-> body, pc |-> pc, start |-> start, elapsed |-> elapsed,
     prediction |-> prediction, numFrames |-> numFrames,
     createResponse |-> createResponse, latestResponse |-> latestResponse,
     errorPayload |-> errorPayload, creates |-> creates, polls |-> polls,
     result |-> result, requests |-> requests, job |-> job]

\* The locals of an invocation that has just received the request b.
StartLocals(b) ==
    [body |-> b, pc |-> "validate", start |-> 0, elapsed |-> 0,
     prediction |-> NullJson, numFrames |-> 0,
     createResponse |-> NotFetched, latestResponse |-> NotFetched,
     errorPayload |-> NullJson, creates |-> 0, polls |-> 0,
     result |-> NoResponse, requests |-> {}, job |-> "none"]

\* No second invocation: the suspended one has answered before it began.
NoPeer == [StartLocals(NoBody) EXCEPT !.pc = "done"]

Alone == self = 1 /\ parked = NoPeer

Init ==
    /\ body \in Bodies
    /\ token \in Tokens
    /\ HandlerStart
    /\ Alone
    /\ form = DefaultForm
    /\ PageStart

\* ----------------------------------------------------------------- helpers
\* Variant: the loop runs until the job has succeeded.
NotSucceeded(p) == ~(IsString(p.status) /\ p.status.s = "succeeded")

\* prediction.status === "starting" || prediction.status === "processing"
InProgress(p) == IsString(p.status) /\ p.status.s \in {"starting", "processing"}

\* Variant: the budget is found exceeded one wait too late.
TimedOutLate(e) == e > timeoutMs + WaitMs

\* Variant: the budget itself already counts as exceeded (>=).
TimedOutAtBudget(e) == e >= timeoutMs

\* Date.now() - start > timeoutMs
TimedOut(e) == e > timeoutMs

\* Variant: output[0]
FirstElement(xs) == IF Len(xs) > 0 THEN xs[1] ELSE Undefined

\* output.find((item) => typeof item === "string")
FindString(xs) ==
    IF \E i \in 1..Len(xs) : IsString(xs[i])
    THEN xs[CHOOSE i \in 1..Len(xs) : IsString(xs[i]) /\ \A j \in 1..(i - 1) : ~IsString(xs[j])]
    ELSE Undefined

\* Variant: an output that is no array is taken as it is.
ExtractVideoUrlUntyped(output) == IF IsArray(output) THEN FindString(output.a) ELSE output

\* const videoUrl = Array.isArray(output) ? output.find(...) : typeof output === "string" ? output : null
ExtractVideoUrl(output) ==
    IF IsArray(output) THEN FindString(output.a)
    ELSE IF IsString(output) THEN output
    ELSE Null

\* await createResponse.json().catch(() => null)
ParsedOrNull(json) == IF json.t = "unparsable" THEN NullJson ELSE json

\* Variant: the generic message whatever the provider said.
CreateFailedGeneric(payload) == Response("failed", Undefined, Undefined, Str(CreateFailedMessage))

\* The answer to a non-success create response:
\* message = errorPayload?.detail ?? the generic message.
CreateFailedResponse(payload) ==
    LET detail == IF payload.t = "null" THEN Undefined ELSE payload.detail
    IN  Response("failed", Undefined, Undefined, Coalesce(detail, Str(CreateFailedMessage)))

\* The answer once the guard finds the budget exceeded.
TimeoutResponse(p) == Response("failed", p.id, Undefined, Str(TimeoutMessage))

\* Variant: the extracted value is answered without the `!videoUrl` test.
NormalizeUnchecked(p) ==
    IF ~(IsString(p.status) /\ p.status.s = "succeeded")
    THEN Response("failed", p.id, Undefined, Coalesce(p.error, Str(NotFinishedMessage)))
    ELSE Response("succeeded", p.id, ExtractVideoUrl(p.output), Str(SuccessMessage))

\* Variant: the provider's error is dropped from a failed answer.
NormalizeGenericError(p) ==
    IF ~(IsString(p.status) /\ p.status.s = "succeeded")
    THEN Response("failed", p.id, Undefined, Str(NotFinishedMessage))
    ELSE LET videoUrl == ExtractVideoUrl(p.output)
         IN  IF ~Truthy(videoUrl)
             THEN Response("failed", p.id, Undefined, Str(UnexpectedPayloadMessage))
             ELSE Response("succeeded", p.id, videoUrl, Str(SuccessMessage))

\* The answer once the loop is left: lines 104-140.
Normalize(p) ==
    IF ~(IsString(p.status) /\ p.status.s = "succeeded")
    THEN Response("failed", p.id, Undefined, Coalesce(p.error, Str(NotFinishedMessage)))
    ELSE LET videoUrl == ExtractVideoUrl(p.output)
         IN  IF ~Truthy(videoUrl)
             THEN Response("failed", p.id, Undefined, Str(UnexpectedPayloadMessage))
             ELSE Response("succeeded", p.id, videoUrl, Str(SuccessMessage))

MockResponse == Response("mock", Undefined, Str(fallbackVideoUrl), Str(MockMessage))

Finish(r) == pc' = "done" /\ result' = r

Max(a, b) == IF a >= b THEN a ELSE b

\* An outbound request: fetch(url, {method, ...}); GET when no method is given.
Request(method, path, id) == [method |-> method, path |-> path, id |-> id]

\* fetch("https://api.replicate.com/v1/predictions", {method: "POST", ...})
CreateRequest == Request("POST", "/v1/predictions", Undefined)

\* Variant: the job is cancelled instead of read.
CancelRequest(id) == Request("POST", "/v1/predictions/{id}/cancel", id)

\* fetch(`https://api.replicate.com/v1/predictions/${prediction.id}`, {headers})
StatusRequest(id) == Request("GET", "/v1/predictions/{id}", id)

\* What the provider does to its job when it serves a request: a create makes
\* a job in status "starting", a read leaves the job as it is, a cancel ends a
\* job that has not finished.
ProviderApply(j, req) ==
    IF req.method = "POST" /\ req.path = "/v1/predictions" THEN "starting"
    ELSE IF req.method = "POST" /\ req.path = "/v1/predictions/{id}/cancel"
         THEN (IF j \in {"starting", "processing"} THEN "canceled" ELSE j)
    ELSE j

\* The request goes out and the provider serves it.
Send(req) == requests' = requests \cup {req} /\ job' = ProviderApply(job, req)

\* The request goes out and the provider does not act on it.
Unserved(req) == requests' = requests \cup {req} /\ job' = job

\* ----------------------------------------------------------------- actions
\* Variant: the credential is tested before the body is parsed.
ValidateAfterToken ==
    /\ pc = "validate"
    /\ IF ~Truthy(token) THEN Finish(MockResponse)
       ELSE IF body.t = "unparsable" THEN Finish(CatchResponse(SyntaxErrorMessage))
       ELSE IF ~requestSchema(body) THEN Finish(CatchResponse(ZodErrorMessage))
       ELSE pc' = "token" /\ result' = result
    /\ UNCHANGED <<body, errorPayload, token, now, start, elapsed, prediction, numFrames, createResponse, latestResponse, creates, polls, requests, job, peerVars, uiVars>>

\* const json = await request.json(); requestSchema.parse(json)
Validate ==
    /\ pc = "validate"
    /\ IF body.t = "unparsable" THEN Finish(CatchResponse(SyntaxErrorMessage))
       ELSE IF ~requestSchema(body) THEN Finish(CatchResponse(ZodErrorMessage))
       ELSE pc' = "token" /\ result' = result
    /\ UNCHANGED <<body, errorPayload, token, now, start, elapsed, prediction, numFrames, createResponse, latestResponse, creates, polls, requests, job, peerVars, uiVars>>

\* if (!token) return mock; const numFrames = ...
CheckToken ==
    /\ pc = "token"
    /\ IF ~Truthy(token)
       THEN Finish(MockResponse) /\ numFrames' = numFrames
       ELSE pc' = "create" /\ result' = result /\ numFrames' = numFramesOf(body.duration)
    /\ UNCHANGED <<body, errorPayload, token, now, start, elapsed, prediction, createResponse, latestResponse, creates, polls, requests, job, peerVars, uiVars>>

\* The create call: fetch rejects.
CreateThrows ==
    /\ pc = "create"
    /\ creates' = creates + 1
    /\ \E l \in Latencies : now' = now + l
    /\ createResponse' = Rejected
    /\ Finish(CatchResponse(FetchErrorMessage))
    /\ Send(CreateRequest) \/ Unserved(CreateRequest)
    /\ UNCHANGED <<body, errorPayload, token, start, elapsed, prediction, numFrames, latestResponse, polls, peerVars, uiVars>>

\* Variant: a rejected submission is sent again.
CreateNotOkRetry ==
    /\ pc = "create"
    /\ creates' = creates + 1
    /\ \E l \in Latencies : now' = now + l
    /\ createResponse' = Fetched("received", FALSE)
    /\ Unserved(CreateRequest)
    /\ UNCHANGED <<body, errorPayload, token, pc, result, start, elapsed, prediction, numFrames, latestResponse, polls, peerVars, uiVars>>

\* The create call: a non-success response.
CreateNotOk ==
    /\ pc = "create"
    /\ creates' = creates + 1
    /\ \E l \in Latencies : now' = now + l
    /\ \E payload \in ErrorBodies :
         /\ createResponse' = Fetched("received", FALSE)
         /\ errorPayload' = ParsedOrNull(payload)
         /\ Finish(CreateFailedResponse(errorPayload'))
    /\ Unserved(CreateRequest)
    /\ UNCHANGED <<body, token, start, elapsed, prediction, numFrames, latestResponse, polls, peerVars, uiVars>>

\* The create call: a success response; its body parses or createResponse.json() rejects.
CreateOk ==
    /\ pc = "create"
    /\ creates' = creates + 1
    /\ \E l \in Latencies : now' = now + l
    /\ \E json \in {UnparsableJson, NullJson} \cup Jobs :
         /\ createResponse' = Fetched("received", TRUE)
         /\ IF json.t = "unparsable"
            THEN Finish(CatchResponse(SyntaxErrorMessage)) /\ UNCHANGED <<prediction, start>>
            ELSE prediction' = json /\ start' = now' /\ pc' = "loop" /\ result' = result
    /\ Send(CreateRequest)
    /\ UNCHANGED <<body, errorPayload, token, elapsed, numFrames, latestResponse, polls, peerVars, uiVars>>

\* The while condition and the timeout guard: lines 72-84.
LoopGuard ==
    /\ pc = "loop"
    /\ IF prediction.t = "null"
       THEN Finish(CatchResponse(TypeErrorMessage)) /\ elapsed' = elapsed
       ELSE IF InProgress(prediction)
       THEN /\ elapsed' = now - start
            /\ IF TimedOut(elapsed')
               THEN Finish(TimeoutResponse(prediction))
               ELSE pc' = "wait" /\ result' = result
       ELSE pc' = "eval" /\ result' = result /\ elapsed' = elapsed
    /\ UNCHANGED <<body, errorPayload, token, now, start, prediction, numFrames, createResponse, latestResponse, creates, polls, requests, job, peerVars, uiVars>>

\* Variant: a wait whose promise never resolves
\* (new Promise(() => setTimeout(() => {}, ms))).
WaitNeverResolves ==
    /\ pc = "wait"
    /\ FALSE
    /\ UNCHANGED vars

\* await wait(3500): the timer is set at the instant of the guard's reading
\* and the continuation runs once it has fired; the clock may have moved on
\* while another invocation ran.
Wait ==
    /\ pc = "wait"
    /\ now' = Max(now, start + elapsed + WaitMs)
    /\ pc' = "poll"
    /\ UNCHANGED <<body, errorPayload, token, start, elapsed, prediction, numFrames, createResponse, latestResponse, creates, polls, result, requests, job, peerVars, uiVars>>

\* The status call: fetch rejects.
PollThrows ==
    /\ pc = "poll"
    /\ polls' = polls + 1
    /\ \E l \in Latencies : now' = now + l
    /\ latestResponse' = Rejected
    /\ Finish(CatchResponse(FetchErrorMessage))
    /\ Send(StatusRequest(prediction.id)) \/ Unserved(StatusRequest(prediction.id))
    /\ UNCHANGED <<body, errorPayload, token, start, elapsed, prediction, numFrames, createResponse, creates, peerVars, uiVars>>

\* Variant: a non-success status response is retried (`continue`).
PollNotOkRetry ==
    /\ pc = "poll"
    /\ polls' = polls + 1
    /\ \E l \in Latencies : now' = now + l
    /\ latestResponse' = Fetched("received", FALSE)
    /\ pc' = "loop"
    /\ Unserved(StatusRequest(prediction.id))
    /\ UNCHANGED <<body, errorPayload, token, start, elapsed, prediction, numFrames, createResponse, creates, result, peerVars, uiVars>>

\* The status call: a non-success response; break.
PollNotOk ==
    /\ pc = "poll"
    /\ polls' = polls + 1
    /\ \E l \in Latencies : now' = now + l
    /\ latestResponse' = Fetched("received", FALSE)
    /\ pc' = "eval"
    /\ Unserved(StatusRequest(prediction.id))
    /\ UNCHANGED <<body, errorPayload, token, start, elapsed, prediction, numFrames, createResponse, creates, result, peerVars, uiVars>>

\* The status call: a success response; prediction = await latestResponse.json()
PollOk ==
    /\ pc = "poll"
    /\ polls' = polls + 1
    /\ \E l \in Latencies : now' = now + l
    /\ \E json \in {UnparsableJson, NullJson} \cup Jobs :
         /\ latestResponse' = Fetched("received", TRUE)
         /\ IF json.t = "unparsable"
            THEN Finish(CatchResponse(SyntaxErrorMessage)) /\ prediction' = prediction
            ELSE prediction' = json /\ pc' = "loop" /\ result' = result
    /\ Send(StatusRequest(prediction.id))
    /\ UNCHANGED <<body, errorPayload, token, start, elapsed, numFrames, createResponse, creates, peerVars, uiVars>>

\* Lines 104-140: the answer for the last observed prediction.
Evaluate ==
    /\ pc = "eval"
    /\ Finish(Normalize(prediction))
    /\ UNCHANGED <<body, errorPayload, token, now, start, elapsed, prediction, numFrames, createResponse, latestResponse, creates, polls, requests, job, peerVars, uiVars>>

Next ==
    \/ Validate
    \/ CheckToken
    \/ CreateThrows
    \/ CreateNotOk
    \/ CreateOk
    \/ LoopGuard
    \/ Wait
    \/ PollThrows
    \/ PollNotOk
    \/ PollOk
    \/ Evaluate

Spec == Init /\ [][Next]_vars

\* ------------------------------------------------------------ page actions
AnalysisLog == Log("Semantic pass", Str("Tokenizing prompt and extracting salient entities, moods, and motion cues."), "info")
StorycraftLog == Log("Narrative synthesis", Str("Drafting multi-beat story arc and selecting cinematic motifs that align with the prompt."), "info")
RenderingLog == Log("Model invocation", Str("Dispatching request to diffusion engine and monitoring inference lifecycle."), "info")
RequestFailedMessage == "Video generation request failed"
ModelErrorLogBody == "The video model returned an error."
ModelErrorMessage == "The video model failed to generate an output."

\* Variant: the catch block leaves the rendering step as it is.
CatchSubmitKeepsStep(message) ==
    /\ error' = Str(message)
    /\ steps' = steps
    /\ logs' = pushLog(logs, Log("Agent error", Str(message), "error"))
    /\ isSubmitting' = FALSE
    /\ uiPc' = "idle"
    /\ UNCHANGED uiResult

\* The catch block and finally of handleSubmit: lines 219-231.
CatchSubmit(message) ==
    /\ error' = Str(message)
    /\ steps' = updateStep(steps, "rendering", "error")
    /\ logs' = pushLog(logs, Log("Agent error", Str(message), "error"))
    /\ isSubmitting' = FALSE
    /\ uiPc' = "idle"
    /\ UNCHANGED uiResult

\* handleSubmit up to the first wait: lines 150-165.  The submit button is
\* disabled while isSubmitting.
Submit ==
    /\ uiPc = "idle"
    /\ ~isSubmitting
    /\ submissions < MaxSubmissions
    /\ submissions' = submissions + 1
    /\ isSubmitting' = TRUE
    /\ error' = Null
    /\ uiResult' = NoData
    /\ steps' = updateStep(PendingSteps, "analysis", "active")
    /\ logs' = pushLog(<<>>, AnalysisLog)
    /\ uiPc' = "analysis"
    /\ UNCHANGED <<form, requestBody, handlerCalls, handlerVars, job, peerVars>>

\* After the first wait(400): lines 166-174.
AnalysisDone ==
    /\ uiPc = "analysis"
    /\ steps' = updateStep(updateStep(steps, "analysis", "complete"), "storycraft", "active")
    /\ logs' = pushLog(logs, StorycraftLog)
    /\ uiPc' = "storycraft"
    /\ UNCHANGED <<form, isSubmitting, error, uiResult, requestBody, submissions, handlerCalls, handlerVars, job, peerVars>>

\* After the second wait(400): lines 175-182.
StorycraftDone ==
    /\ uiPc = "storycraft"
    /\ steps' = updateStep(updateStep(steps, "storycraft", "complete"), "rendering", "active")
    /\ logs' = pushLog(logs, RenderingLog)
    /\ uiPc' = "dispatch"
    /\ UNCHANGED <<form, isSubmitting, error, uiResult, requestBody, submissions, handlerCalls, handlerVars, job, peerVars>>

\* fetch("/api/generate-video", {method: "POST", body: JSON.stringify({...})})
Dispatch ==
    /\ uiPc = "dispatch"
    /\ handlerCalls' = handlerCalls + 1
    /\ requestBody' = Body("object", Str(form.prompt), Str(form.style), Str(form.aspectRatio), form.duration)
    /\ uiPc' = "fetching"
    /\ UNCHANGED <<form, steps, logs, isSubmitting, error, uiResult, submissions, handlerVars, job, peerVars>>

\* The fetch rejects, or response.json() does.
FetchThrows ==
    /\ uiPc = "fetching"
    /\ CatchSubmit(FetchErrorMessage)
    /\ UNCHANGED <<form, requestBody, submissions, handlerCalls, handlerVars, job, peerVars>>

\* Variant: a response that is not OK is requested again.
FetchNotOkRetry ==
    /\ uiPc = "fetching"
    /\ uiPc' = "dispatch"
    /\ UNCHANGED <<form, steps, logs, isSubmitting, error, uiResult, requestBody, submissions, handlerCalls, handlerVars, job, peerVars>>

\* if (!response.ok) throw new Error("Video generation request failed")
FetchNotOk ==
    /\ uiPc = "fetching"
    /\ CatchSubmit(RequestFailedMessage)
    /\ UNCHANGED <<form, requestBody, submissions, handlerCalls, handlerVars, job, peerVars>>

\* The handler's answer arrives: lines 196-218 and the finally block.
FetchOk ==
    /\ uiPc = "fetching"
    /\ \E data \in Datas :
         /\ IF data.status = "failed"
            THEN /\ logs' = pushLog(logs, Log("Generation failed", Coalesce(data.message, Str(ModelErrorLogBody)), "error"))
                 /\ steps' = updateStep(steps, "rendering", "error")
                 /\ error' = Coalesce(data.message, Str(ModelErrorMessage))
            ELSE /\ logs' = pushLog(logs,
                        IF data.status = "mock"
                        THEN Log("Mock preview", Str("Using sample cinematic reel because no API credentials were provided."), "warning")
                        ELSE Log("Render ready", Str("Video diffusion completed successfully."), "success"))
                 /\ steps' = updateStep(steps, "rendering", "complete")
                 /\ error' = error
         /\ uiResult' = data
    /\ isSubmitting' = FALSE
    /\ uiPc' = "idle"
    /\ UNCHANGED <<form, requestBody, submissions, handlerCalls, handlerVars, job, peerVars>>

\* The page on its own: every answer the handler or the transport can give.
InitUI ==
    /\ body = Body("null", Undefined, Undefined, Undefined, 0)
    /\ token = Undefined
    /\ HandlerStart
    /\ Alone
    /\ form \in Forms
    /\ PageStart

NextUI ==
    \/ Submit
    \/ AnalysisDone
    \/ StorycraftDone
    \/ Dispatch
    \/ FetchThrows
    \/ FetchNotOk
    \/ FetchOk

SpecUI == InitUI /\ [][NextUI]_vars

\* The handler together with the provider's job, on a well-formed request with
\* a credential: the job moves on by itself, and what the provider reports is
\* the status of the job.
Reports(p, j) == p.t = "object" /\ p.status = Str(j)

ProviderProgress ==
    /\ job \in {"starting", "processing"}
    /\ job' \in (IF job = "starting" THEN {"processing"} ELSE {"succeeded", "failed", "canceled"})
    /\ UNCHANGED <<handlerVars, peerVars, uiVars>>

\* The create call is served: the response is the job just made.
CreateReported == CreateOk /\ Reports(prediction', job')

\* The status call is served: the response is the job as it is now.
StatusReported == PollOk /\ Reports(prediction', job')

InitJob ==
    /\ body = Body("object", Str("sunrises"), Str("anime"), Str("16:9"), MinDuration * DurationScale)
    /\ token = Str("r8_token")
    /\ HandlerStart
    /\ Alone
    /\ form = DefaultForm
    /\ PageStart

NextJob ==
    \/ Validate
    \/ CheckToken
    \/ CreateThrows
    \/ CreateNotOk
    \/ CreateReported
    \/ LoopGuard
    \/ Wait
    \/ PollThrows
    \/ PollNotOk
    \/ StatusReported
    \/ Evaluate
    \/ ProviderProgress

SpecJob == InitJob /\ [][NextJob]_vars

\* Two invocations of the handler in one process. The runtime runs one
\* continuation at a time; at an await the running invocation is suspended
\* with its locals and the other one, unless it has answered, is resumed.
\* The credential and the clock are the process's.
\* Variant: prediction is a binding of the module, shared by the invocations.
SwitchSharedPrediction ==
    /\ parked.pc # "done"
    /\ self' = 3 - self
    /\ parked' = [Locals EXCEPT !.prediction = parked.prediction]
    /\ body' = parked.body
    /\ pc' = parked.pc
    /\ start' = parked.start
    /\ elapsed' = parked.elapsed
    /\ prediction' = prediction
    /\ numFrames' = parked.numFrames
    /\ createResponse' = parked.createResponse
    /\ latestResponse' = parked.latestResponse
    /\ errorPayload' = parked.errorPayload
    /\ creates' = parked.creates
    /\ polls' = parked.polls
    /\ result' = parked.result
    /\ requests' = parked.requests
    /\ job' = parked.job
    /\ UNCHANGED <<token, now, uiVars>>

Switch ==
    /\ parked.pc # "done"
    /\ self' = 3 - self
    /\ parked' = Locals
    /\ body' = parked.body
    /\ pc' = parked.pc
    /\ start' = parked.start
    /\ elapsed' = parked.elapsed
    /\ prediction' = parked.prediction
    /\ numFrames' = parked.numFrames
    /\ createResponse' = parked.createResponse
    /\ latestResponse' = parked.latestResponse
    /\ errorPayload' = parked.errorPayload
    /\ creates' = parked.creates
    /\ polls' = parked.polls
    /\ result' = parked.result
    /\ requests' = parked.requests
    /\ job' = parked.job
    /\ UNCHANGED <<token, now, uiVars>>

PairBodies ==
    {Body("object", Str("sunrises"), Str("anime"), Str("4:3"), MinDuration * DurationScale),
     Body("object", Str("sunrises"), Str("anime"), Str("16:9"), MinDuration * DurationScale)}

\* What the provider answers here: the job of the running invocation, in
\* progress, succeeded with a video or failed with an error.
PairJobs ==
    {Json("object", JobId, Str("processing"), Null, Null, Undefined),
     Json("object", JobId, Str("succeeded"), Str(VideoUrl), Null, Undefined),
     Json("object", JobId, Str("failed"), Null, ProviderError, Undefined)}

\* Both requests arrive early: each create call is made before the first
\* wait of the other invocation is over.
Early == now < WaitMs

EarlyCreateThrows == Early /\ CreateThrows

EarlyCreateNotOk == Early /\ CreateNotOk

CreateAnswered == Early /\ CreateOk /\ prediction' \in PairJobs /\ pc' = "loop"

\* A timer fires when it is due: the clock does not pass this invocation's
\* timer while the other one has a continuation to run or an earlier timer.
Due ==
    \/ parked.pc \in {"done", "validate", "token", "create"}
    \/ parked.pc = "wait" /\ parked.start + parked.elapsed >= start + elapsed

TimelyWait == Due /\ Wait

\* The status calls come back at once.
PromptPollThrows == PollThrows /\ now' = now

PromptPollNotOk == PollNotOk /\ now' = now

StatusAnswered == PollOk /\ now' = now /\ prediction' \in PairJobs /\ pc' = "loop"

InitPair ==
    /\ body = Body("object", Str("sunrises"), Str("anime"), Str("16:9"), MinDuration * DurationScale)
    /\ token = Str("r8_token")
    /\ HandlerStart
    /\ self = 1
    /\ parked \in {StartLocals(b) : b \in PairBodies}
    /\ form = DefaultForm
    /\ PageStart

NextPair ==
    \/ Validate
    \/ CheckToken
    \/ EarlyCreateThrows
    \/ EarlyCreateNotOk
    \/ CreateAnswered
    \/ LoopGuard
    \/ TimelyWait
    \/ PromptPollThrows
    \/ PromptPollNotOk
    \/ StatusAnswered
    \/ Evaluate
    \/ Switch

SpecPair == InitPair /\ [][NextPair]_vars

\* The handler on one well-formed and one malformed request, with the
\* runtime's guarantee that a continuation whose promise has settled is run:
\* every wait ends and every provider call returns or rejects.
LiveBodies ==
    {Body("unparsable", Undefined, Undefined, Undefined, 0),
     Body("object", Str("sunrises"), Str("anime"), Str("16:9"), MinDuration * DurationScale)}

InitLive ==
    /\ body \in LiveBodies
    /\ token \in Tokens
    /\ HandlerStart
    /\ Alone
    /\ form = DefaultForm
    /\ PageStart

SpecLive == InitLive /\ [][Next]_vars /\ WF_vars(Next)

\* ------------------------------------------------------------------ claims
Done == pc = "done"
Succeeded(p) == p.t = "object" /\ p.status = Str("succeeded")
NoCredential == token = Undefined \/ token = Str("")
NoOutboundCall == creates = 0 /\ polls = 0

\* C1: a result with status "succeeded" carries a non-empty video location
\* (a string), and a result with status "failed" carries none.
C1_ResultShape ==
    /\ result.status = "succeeded" => (result.videoUrl.t = "string" /\ result.videoUrl.s # "")
    /\ result.status = "failed" => result.videoUrl = Undefined

C1_Witness ==
    /\ Done
    /\ result.status = "succeeded"
    /\ result.videoUrl = Str(VideoUrl)
    /\ polls > 0

\* C2: whatever the request body and whatever the provider does, the answer
\* is HTTP 200 with a status of mock, succeeded or failed; before the handler
\* has finished nothing is answered.
C2_AlwaysInBand ==
    /\ Done => (result.http = 200 /\ result.status \in {"mock", "succeeded", "failed"})
    /\ ~Done => result = NoResponse

C2_Witness ==
    /\ Done
    /\ latestResponse.st = "rejected"
    /\ result.http = 200
    /\ result.status = "failed"

\* C3 as stated: with no credential the result is "mock" with the placeholder
\* video whatever the prompt, style and aspectRatio (strings of a JSON object
\* with a duration in range), and no outbound call is made.
C3_Original ==
    (/\ Done
     /\ NoCredential
     /\ body.t = "object"
     /\ body.prompt.t = "string"
     /\ body.style.t = "string"
     /\ ZNumberRange(body.duration, MinDuration, MaxDuration)) =>
        (result.status = "mock" /\ result.videoUrl = Str(fallbackVideoUrl) /\ NoOutboundCall)

\* C3 (amended): with no credential no outbound call is ever made, and a
\* request that passes validation is answered "mock" with the non-empty
\* placeholder video.
C3_MockWhenValid ==
    NoCredential =>
        /\ NoOutboundCall
        /\ (Done /\ requestSchema(body)) =>
              /\ result.status = "mock"
              /\ result.videoUrl = Str(fallbackVideoUrl)
              /\ result.videoUrl.s # ""

C3_Witness ==
    /\ Done
    /\ token = Str("")
    /\ requestSchema(body)
    /\ result.status = "mock"

\* A URL string among the modelled output entries.
IsUrlString(v) == IsString(v) /\ v.s = VideoUrl

\* C4 as stated: for a succeeded job whose output is a collection of non-empty
\* strings and other values, videoUrl is the first element that is a URL
\* string; so it is for ["not-a-url", "https://x/video.mp4"].
C4_Original ==
    (/\ Done
     /\ Succeeded(prediction)
     /\ IsArray(prediction.output)
     /\ \A k \in 1..Len(prediction.output.a) : prediction.output.a[k] # Str("")) =>
        \A i \in 1..Len(prediction.output.a) :
            (/\ IsUrlString(prediction.output.a[i])
             /\ \A j \in 1..(i - 1) : ~IsUrlString(prediction.output.a[j]))
            => result.videoUrl = prediction.output.a[i]

\* C4 (amended): for a succeeded job whose output is a collection, videoUrl is
\* the first element of string type, URL or not, when that string is not
\* empty; elements of other types before it are skipped.
C4_FirstStringEntry ==
    (Done /\ Succeeded(prediction) /\ IsArray(prediction.output)) =>
        \A i \in 1..Len(prediction.output.a) :
            (/\ prediction.output.a[i].t = "string"
             /\ prediction.output.a[i].s # ""
             /\ \A j \in 1..(i - 1) : prediction.output.a[j].t # "string")
            => (result.status = "succeeded" /\ result.videoUrl = prediction.output.a[i])

C4_Witness ==
    /\ Done
    /\ Succeeded(prediction)
    /\ prediction.output = Arr(<<Num("42"), Str(VideoUrl)>>)
    /\ result.videoUrl = Str(VideoUrl)

\* C5: when the guard runs with the job still "starting" or "processing" and
\* more than the budget elapsed since submission, the handler answers "failed"
\* with the timeout message in that step, and no status call follows.
C5_TimeoutFails ==
    /\ [][(pc = "loop" /\ prediction.t = "object" /\ InProgress(prediction) /\ now - start > timeoutMs)
            => (/\ pc' = "done"
                /\ result'.status = "failed"
                /\ result'.message = Str(TimeoutMessage)
                /\ result'.videoUrl = Undefined
                /\ polls' = polls)]_vars
    /\ [][result.message = Str(TimeoutMessage) => (polls' = polls /\ creates' = creates)]_vars

C5_Witness ==
    /\ Done
    /\ prediction.status = Str("processing")
    /\ now - start > timeoutMs
    /\ result.status = "failed"
    /\ result.message = Str(TimeoutMessage)

\* C6 as stated: whenever the elapsed time since submission exceeds the budget
\* when the handler returns, the result is a failure.
C6_Original ==
    (Done /\ createResponse.ok /\ now - start > timeoutMs) => result.status = "failed"

\* C6 (amended): the deadline is enforced by the guard alone: a guard reading
\* above the budget ends the request with a failure at once, so a "succeeded"
\* result is only returned when the last guard reading was within the budget
\* (the poll after it may complete past the budget and still succeed).
C6_GuardDeadline ==
    /\ elapsed > timeoutMs => (Done /\ result.status = "failed")
    /\ (Done /\ result.status = "succeeded") => elapsed <= timeoutMs

C6_Witness ==
    /\ Done
    /\ result.status = "succeeded"
    /\ now - start > timeoutMs
    /\ elapsed <= timeoutMs

\* C7: a non-success create response is answered "failed" with no video
\* location, the provider's detail as message when it gave one and the generic
\* message otherwise, and no status call is made.
C7_CreateRejected ==
    (createResponse.st = "received" /\ ~createResponse.ok) =>
        /\ Done
        /\ result.status = "failed"
        /\ result.videoUrl = Undefined
        /\ polls = 0
        /\ result.message =
              IF errorPayload.t = "object" /\ errorPayload.detail.t = "string"
              THEN errorPayload.detail
              ELSE Str(CreateFailedMessage)

C7_Witness ==
    /\ Done
    /\ createResponse = Fetched("received", FALSE)
    /\ errorPayload.detail = ErrorDetail
    /\ result.message = ErrorDetail

\* The ways of failing validation the claim names.
FailsValidation(b) ==
    /\ b.t = "object"
    /\ \/ ~(b.aspectRatio.t = "string" /\ b.aspectRatio.s \in {"16:9", "9:16", "1:1"})
       \/ ~(b.prompt.t = "string" /\ Len(b.prompt.s) >= 8)
       \/ b.duration < 4 * DurationScale
       \/ b.duration > 24 * DurationScale

\* C8: a request with an aspectRatio outside the fixed set, a prompt below the
\* minimum length or a duration outside [4,24] makes no outbound call and is
\* answered with a failure.
C8_RejectedBeforeCalls ==
    FailsValidation(body) =>
        /\ NoOutboundCall
        /\ pc \in {"validate", "done"}
        /\ Done => result.status = "failed"

C8_Witness ==
    /\ Done
    /\ body = Body("object", Str("sunrises"), Str("anime"), Str("4:3"), 64)
    /\ token = Str("r8_token")
    /\ result.status = "failed"

RejectedByValidator == Done /\ result.message = Str(ZodErrorMessage)

\* C9 as stated: a request whose style is not one of the enumerated style
\* labels is rejected with a validation error.
C9_Original ==
    (pc # "validate" /\ body.t = "object" /\ ~(body.style.t = "string" /\ body.style.s \in styles))
        => RejectedByValidator

\* C9 (amended): the validator rejects a request whose style is not a string
\* of at least 3 characters; a style is not compared with the enumerated
\* labels, so any string of 3 or more characters passes the style check.
C9_StyleIsAnyString ==
    (pc # "validate" /\ body.t = "object") =>
        /\ ~(body.style.t = "string" /\ Len(body.style.s) >= 3) => RejectedByValidator
        /\ (/\ body.style.t = "string" /\ Len(body.style.s) >= 3
            /\ ~FailsValidation(body)) => ~RejectedByValidator

C9_Witness ==
    /\ RejectedByValidator
    /\ body = Body("object", Str("sunrises"), Str("ab"), Str("16:9"), 64)

\* The outputs from which no video location can be taken.
NoVideoIn(out) ==
    \/ out.t \in {"object", "number", "null", "undefined"}
    \/ out.t = "array" /\ \A i \in 1..Len(out.a) : out.a[i].t # "string"
    \/ out.t = "string" /\ out.s = ""

\* C10: a succeeded job whose output is an object, a number, null, a
\* collection without a string entry or the empty string is answered "failed"
\* with the unexpected-payload message and no video location.
C10_UnexpectedPayload ==
    (Done /\ Succeeded(prediction) /\ NoVideoIn(prediction.output)) =>
        /\ result.status = "failed"
        /\ result.message = Str(UnexpectedPayloadMessage)
        /\ result.videoUrl = Undefined

C10_Witness ==
    /\ Done
    /\ Succeeded(prediction)
    /\ prediction.output = Obj
    /\ result.message = Str(UnexpectedPayloadMessage)

\* C11: the frame count sent with the create call is min(floor(d * 8), 160)
\* for the request's duration d in [4,24]; it lies in 32..160.
C11_FrameCount ==
    creates > 0 =>
        /\ \E f \in 0..(MaxDuration * 8) :
              /\ f * DurationScale <= body.duration * 8
              /\ body.duration * 8 < (f + 1) * DurationScale
              /\ numFrames = IF f <= 160 THEN f ELSE 160
        /\ numFrames >= 32
        /\ numFrames <= 160

C11_Witness ==
    /\ creates > 0
    /\ body.duration = 319
    /\ numFrames = 159

PollFailed == latestResponse.st = "received" /\ ~latestResponse.ok

\* C12: after a non-success status response the loop is left: the job is
\* still "starting" or "processing", no further status call is made, and the
\* handler answers "failed" for that last observed status.
C12_PollFailureEndsLoop ==
    /\ [](PollFailed =>
            /\ pc \in {"eval", "done"}
            /\ prediction.status \in {Str("starting"), Str("processing")}
            /\ Done => (result.status = "failed" /\ result.videoUrl = Undefined))
    /\ [][PollFailed => (polls' = polls /\ creates' = creates /\ prediction' = prediction)]_vars

C12_Witness ==
    /\ Done
    /\ PollFailed
    /\ polls >= 2
    /\ prediction.status = Str("processing")
    /\ result.status = "failed"

\* C13: when the loop is left with a last observed status other than
\* "succeeded", the handler answers "failed" with the job's error as message
\* when it carries one and the generic message otherwise.
C13_UnfinishedFails ==
    [][(pc = "eval" /\ prediction.status # Str("succeeded")) =>
          /\ pc' = "done"
          /\ result'.status = "failed"
          /\ result'.videoUrl = Undefined
          /\ result'.message =
                IF prediction.error.t = "string"
                THEN prediction.error
                ELSE Str("The video model did not finish successfully. Adjust your prompt or try again.")]_vars

C13_Witness ==
    /\ Done
    /\ prediction.status = Str("canceled")
    /\ prediction.error = ProviderError
    /\ result.status = "failed"
    /\ result.message = ProviderError

\* C14: the page makes one handler call per submission, and makes it only
\* once the analysis and storycraft steps are complete and the rendering step
\* is active.
C14_OneCallPerSubmission ==
    /\ [](handlerCalls = IF uiPc \in {"analysis", "storycraft", "dispatch"}
                         THEN submissions - 1
                         ELSE submissions)
    /\ [][handlerCalls' # handlerCalls =>
            /\ handlerCalls' = handlerCalls + 1
            /\ steps["analysis"] = "complete"
            /\ steps["storycraft"] = "complete"
            /\ steps["rendering"] = "active"]_vars

C14_Witness ==
    /\ uiPc = "idle"
    /\ ~isSubmitting
    /\ submissions = 2
    /\ handlerCalls = 2

\* C15: an invocation makes at most one create call, makes it before any
\* status call, and makes no outbound call once it has answered.
C15_SubmitThenPoll ==
    /\ [](creates <= 1 /\ (polls > 0 => creates = 1))
    /\ [][creates' # creates => (creates = 0 /\ polls = 0 /\ pc = "create")]_vars
    /\ [][polls' # polls => (pc = "poll" /\ polls' = polls + 1)]_vars
    /\ [][Done => (creates' = creates /\ polls' = polls /\ result' = result /\ pc' = pc)]_vars

C15_Witness ==
    /\ Done
    /\ creates = 1
    /\ polls >= 2
    /\ result.status = "succeeded"

\* C16: with every wait ending and every provider call returning, the handler
\* eventually answers, also when every refresh reports "processing".
C16_Terminates == <>Done

C16_Witness ==
    /\ Done
    /\ polls = 16
    /\ prediction.status = Str("processing")
    /\ result.message = Str(TimeoutMessage)

\* C17: a status call is made only while the last observed status is
\* "starting" or "processing" and one wait of 3500 ms after the guard; a job
\* first observed in any other status is never polled.
C17_PollOnlyInProgress ==
    /\ [](pc = "poll" =>
            /\ prediction.status \in {Str("starting"), Str("processing")}
            /\ now - start = elapsed + 3500)
    /\ [][polls' # polls => (pc = "poll")]_vars
    /\ [][(pc = "loop" /\ prediction.t = "object"
             /\ prediction.status \notin {Str("starting"), Str("processing")})
            => (pc' = "eval" /\ polls' = polls)]_vars
    /\ [][(pc \in {"eval", "done"}) => (polls' = polls)]_vars

C17_Witness ==
    /\ Done
    /\ createResponse = Fetched("received", TRUE)
    /\ prediction.status = Str("failed")
    /\ polls = 0

\* A request the validator does not accept.
InvalidRequest(b) ==
    \/ b.t # "object"
    \/ FailsValidation(b)
    \/ ~(b.style.t = "string" /\ Len(b.style.s) >= 3)

\* C20: with no credential configured, a request that fails validation is
\* answered "failed", not "mock", and makes no outbound call.
C20_ValidationBeforeCredential ==
    (Done /\ NoCredential /\ InvalidRequest(body)) =>
        /\ result.status = "failed"
        /\ result.videoUrl = Undefined
        /\ NoOutboundCall

C20_Witness ==
    /\ Done
    /\ token = Undefined
    /\ body = Body("object", Str("sunrises"), Str("anime"), Str("4:3"), 64)
    /\ result.status = "failed"
    /\ result.message = Str(ZodErrorMessage)

\* C18: the handler sends only create and status requests, and no step of it
\* after the create call changes the job on the provider's side; a job the
\* handler gave up on can still finish by itself.
C18_JobLeftAlone ==
    /\ [](requests \subseteq {Request("POST", "/v1/predictions", Undefined),
                              Request("GET", "/v1/predictions/{id}", Str("p1"))})
    /\ [][(handlerVars' # handlerVars /\ pc # "create") => (job' = job)]_vars
    /\ [][Done => (handlerVars' = handlerVars)]_vars

C18_Witness ==
    /\ Done
    /\ result.message = Str(TimeoutMessage)
    /\ prediction.status = Str("processing")
    /\ polls > 0
    /\ job = "succeeded"

\* The locals of invocation i, running or suspended.
Own(i) == IF self = i THEN Locals ELSE parked

\* The answer of invocation i follows from its own request, its own requests
\* to the provider and the last report on its own job.
OwnResult(l, i) ==
    l.pc = "done" =>
        /\ l.result.predictionId \in {Undefined, JobIdOf(i)}
        /\ l.requests \subseteq {Request("POST", "/v1/predictions", Undefined),
                                 Request("GET", "/v1/predictions/{id}", JobIdOf(i))}
        /\ ~requestSchema(l.body) => (l.result.status = "failed" /\ l.creates = 0)
        /\ l.result.status = "succeeded" =>
              /\ l.prediction.id = JobIdOf(i)
              /\ l.prediction.status = Str("succeeded")
              /\ l.result.videoUrl = l.prediction.output
        /\ l.result.message = Str(TimeoutMessage) =>
              /\ l.prediction.status = Str("processing")
              /\ l.elapsed > 55000

\* C19: with two invocations interleaved, the locals of one change only in
\* its own steps, and each answer follows from that invocation's own request
\* and job.
C19_Independent ==
    /\ [][\A i \in {1, 2} : (self # i \/ self' # self) => (Own(i)' = Own(i))]_vars
    /\ [](\A i \in {1, 2} : OwnResult(Own(i), i))

C19_Witness ==
    /\ Own(1).pc = "done"
    /\ Own(1).result.message = Str(TimeoutMessage)
    /\ Own(1).polls = 16
    /\ Own(2).pc = "done"
    /\ Own(2).result.status = "succeeded"
    /\ Own(2).result.predictionId = Str("p2")
    /\ Own(2).polls > 0

\* C21: a job first reported "starting" or "processing" is polled at least
\* once and at most 16 times; the guard lets a reading of up to 55000 ms
\* through to the next poll and answers the timeout at the first reading
\* above it, which with status calls that take no time is the reading of
\* 56000 ms after the 16th poll.
C21_PollCount ==
    /\ polls <= 16
    /\ (pc \in {"eval", "done"} /\ createResponse = Fetched("received", TRUE)
          /\ polls = 0 /\ prediction.t = "object")
         => prediction.status \notin {Str("starting"), Str("processing")}
    /\ pc \in {"wait", "poll"} => elapsed <= 55000
    /\ result.message = Str(TimeoutMessage) => (elapsed > 55000 /\ polls >= 1)
    /\ (result.message = Str(TimeoutMessage) /\ now - start = 3500 * polls)
         => (polls = 16 /\ elapsed = 56000)

C21_Witness ==
    /\ Done
    /\ result.message = Str(TimeoutMessage)
    /\ now - start = 3500 * polls
    /\ polls = 16
    /\ elapsed = 56000

\* C22: once a submission has finished, isSubmitting is false, the analysis
\* and storycraft steps are complete, and the rendering step is "error" with
\* an error message exactly when the answer was "failed" or none was accepted
\* (the response was not OK, or the fetch or the parsing threw); otherwise the
\* rendering step is "complete" and the error is null.
C22_FinalState ==
    (uiPc = "idle" /\ submissions > 0) =>
        /\ isSubmitting = FALSE
        /\ steps["analysis"] = "complete"
        /\ steps["storycraft"] = "complete"
        /\ steps["rendering"] \in {"error", "complete"}
        /\ steps["rendering"] = "error" <=> error # Null
        /\ steps["rendering"] = "error" <=> (uiResult = NoData \/ uiResult.status = "failed")
        /\ steps["rendering"] = "complete" =>
              (uiResult.status \in {"succeeded", "mock"} /\ error = Null)

C22_Witness ==
    /\ uiPc = "idle"
    /\ submissions = 1
    /\ isSubmitting = FALSE
    /\ uiResult = NoData
    /\ error = Str(RequestFailedMessage)
    /\ steps["rendering"] = "error"

====
